---- MODULE Spec2Model ----
\* Address spaces of the Nachos kernel (userprog/addrspace.cc): the global
\* frame counter, the two constructors (from a NOFF image, from a parent),
\* the destructor, the register and context-switch hooks and Translate.
EXTENDS Integers, Sequences, FiniteSets, TLC

\* ------------------------------------------------------------------ bounds
\* The machine of the model is a small one: machine.h and addrspace.h fix
\* the page size, the stack reservation and the number of frames outside
\* this file, and nothing below depends on their values beyond PageSize
\* being a whole number of words of at least 16 bytes.
\* Words per page.
PageWords == 4
\* Pages of the stack reservation.
StackPages == 2
\* Physical frames of the machine.
NumPhysPages == 10
\* Address spaces constructed in one run.
MaxSpaces == 3
\* Calls of the destructor, Translate, InitRegisters, SaveState and
\* RestoreState in one run of the kernel.
MaxCalls == 1
\* Calls of Translate in a row when Translate is examined on its own.
MaxTranslates == 2
\* Entries of a page table handed to Translate when examined on its own.
MaxEntries == 2
MaxSwitches == 2
MaxThreads == 2

\* --------------------------------------------------------- program constants
PageSize == 4 * PageWords
UserStackSize == StackPages * PageSize
MemorySize == NumPhysPages * PageSize
NOFFMAGIC == 12246957
NumTotalRegs == 40
StackReg == 29
PCReg == 34
NextPCReg == 35
MaxInt32 == 2147483647
MinInt32 == (-MaxInt32) - 1

\* ------------------------------------------------------ 32-bit machine words
\* A 32-bit word is represented by its two's-complement value in
\* MinInt32..MaxInt32, whether the program types it int or unsigned int.
\* The operators below compute on the unsigned reading of a word.

\* (unsigned) w >> 1
UHalf(w) == IF w >= 0 THEN w \div 2 ELSE ((w \div 2) + MaxInt32) + 1

\* (unsigned) w / d, for 2 <= d
UDiv(w, d) == 2 * (UHalf(w) \div d) + (2 * (UHalf(w) % d) + (w % 2)) \div d

\* (unsigned) w % d, for 2 <= d
UMod(w, d) == (2 * (UHalf(w) % d) + (w % 2)) % d

\* a + b on 32 bits, wrapping
Add32(a, b) ==
    IF a >= 0 /\ b >= 0 /\ a > MaxInt32 - b
    THEN (a - MaxInt32 - 1) + (b - MaxInt32 - 1)
    ELSE IF a < 0 /\ b < 0 /\ a < MinInt32 - b
         THEN (a + MaxInt32 + 1) + (b + MaxInt32 + 1)
         ELSE a + b

\* utility.h: #define divRoundUp(n,s) (((n) / (s)) + ((((n) % (s)) > 0) ? 1 : 0))
divRoundUp(n, s) == UDiv(n, s) + (IF UMod(n, s) > 0 THEN 1 ELSE 0)

\* The four bytes of a word, least significant first.
WordBytes(w) == [i \in 0..3 |-> (w \div (256 ^ i)) % 256]

\* The word made of four bytes, least significant first.
BytesWord(b) ==
    b[0] + 256 * b[1] + 65536 * b[2]
         + 16777216 * (IF b[3] >= 128 THEN b[3] - 256 ELSE b[3])

\* WordToHost on a host of the other byte order: the bytes reversed.
WordToHost(w) == BytesWord([i \in 0..3 |-> WordBytes(w)[3 - i]])

\* ------------------------------------------------------------------- state
VARIABLES
    totalPagesCount,   \* the global frame counter
    mainMemory,        \* machine->mainMemory
    spaces,            \* the address spaces constructed so far, in order
    machinePageTable,  \* machine->pageTable: index in spaces, 0 for NULL
    machinePageTableSize, \* machine->pageTableSize
    registers,         \* machine->registers
    aborted,           \* an ASSERT failed: the kernel has terminated
    calls,             \* method calls the run may still make
    beyond,            \* what reads beyond the end of a page table returned
    building,          \* the constructions in progress, one per thread
    last               \* the operation that led to this state

vars == <<totalPagesCount, mainMemory, spaces, machinePageTable,
          machinePageTableSize, registers, aborted, calls, beyond, building,
          last>>

\* ---------------------------------------------------------------- Translate
\* ExceptionType values returned by Translate.
ExceptionTypes ==
    {"NoException", "AddressErrorException", "PageFaultException",
     "BusErrorException"}

\* NewEntry as the stock one-to-one mapping: physicalPage = i.
NewEntry_Identity(i, base) ==
    [virtualPage |-> i, physicalPage |-> i, valid |-> TRUE,
     use |-> FALSE, dirty |-> FALSE, readOnly |-> FALSE]

\* A TranslationEntry as the constructors fill it in.
NewEntry(i, base) ==
    [virtualPage |-> i, physicalPage |-> i + base, valid |-> TRUE,
     use |-> FALSE, dirty |-> FALSE, readOnly |-> FALSE]

\* What a read of pageTable[vpn] beyond the end of the array may deliver.
WildEntries ==
    {[virtualPage |-> 0, physicalPage |-> f, valid |-> v,
      use |-> FALSE, dirty |-> FALSE, readOnly |-> FALSE] :
        f \in {0, NumPhysPages}, v \in BOOLEAN}

\* pageTable[vpn] as Translate reads it: the entry of the page table of the
\* address space Translate is invoked on (the parameter pgTable is not read).
EntriesRead(pageTable, vpn) ==
    IF vpn \in DOMAIN pageTable THEN {pageTable[vpn]} ELSE WildEntries

\* TranslateEntry testing the frame number before the valid bit.
TranslateEntry_BusFirst(pageTable, vpn, offset, physBefore, entry) ==
    IF entry.physicalPage < 0 \/ entry.physicalPage >= NumPhysPages
    THEN [exc |-> "BusErrorException", phys |-> physBefore,
          pageTable |-> pageTable, oob |-> vpn \notin DOMAIN pageTable,
          assertOk |-> TRUE]
    ELSE IF ~entry.valid
    THEN [exc |-> "PageFaultException", phys |-> physBefore,
          pageTable |-> pageTable, oob |-> vpn \notin DOMAIN pageTable,
          assertOk |-> TRUE]
    ELSE [exc |-> "NoException",
          phys |-> entry.physicalPage * PageSize + offset,
          pageTable |-> IF vpn \in DOMAIN pageTable
                        THEN [pageTable EXCEPT ![vpn].use = TRUE]
                        ELSE pageTable,
          oob |-> vpn \notin DOMAIN pageTable,
          assertOk |-> TRUE]

\* TranslateEntry without the test of the frame number.
TranslateEntry_NoBusError(pageTable, vpn, offset, physBefore, entry) ==
    IF ~entry.valid
    THEN [exc |-> "PageFaultException", phys |-> physBefore,
          pageTable |-> pageTable, oob |-> vpn \notin DOMAIN pageTable,
          assertOk |-> TRUE]
    ELSE [exc |-> "NoException",
          phys |-> entry.physicalPage * PageSize + offset,
          pageTable |-> IF vpn \in DOMAIN pageTable
                        THEN [pageTable EXCEPT ![vpn].use = TRUE]
                        ELSE pageTable,
          oob |-> vpn \notin DOMAIN pageTable,
          assertOk |-> (entry.physicalPage * PageSize + offset >= 0)
                       /\ (entry.physicalPage * PageSize + offset + 4
                              <= MemorySize)]

\* TranslateEntry marking the entry used before it tests the valid bit.
TranslateEntry_UseOnFault(pageTable, vpn, offset, physBefore, entry) ==
    IF ~entry.valid
    THEN [exc |-> "PageFaultException", phys |-> physBefore,
          pageTable |-> IF vpn \in DOMAIN pageTable
                        THEN [pageTable EXCEPT ![vpn].use = TRUE]
                        ELSE pageTable,
          oob |-> vpn \notin DOMAIN pageTable,
          assertOk |-> TRUE]
    ELSE IF entry.physicalPage < 0 \/ entry.physicalPage >= NumPhysPages
    THEN [exc |-> "BusErrorException", phys |-> physBefore,
          pageTable |-> pageTable, oob |-> vpn \notin DOMAIN pageTable,
          assertOk |-> TRUE]
    ELSE [exc |-> "NoException",
          phys |-> entry.physicalPage * PageSize + offset,
          pageTable |-> IF vpn \in DOMAIN pageTable
                        THEN [pageTable EXCEPT ![vpn].use = TRUE]
                        ELSE pageTable,
          oob |-> vpn \notin DOMAIN pageTable,
          assertOk |-> TRUE]

\* TranslateEntry toggling the use bit instead of setting it.
TranslateEntry_ToggleUse(pageTable, vpn, offset, physBefore, entry) ==
    IF ~entry.valid
    THEN [exc |-> "PageFaultException", phys |-> physBefore,
          pageTable |-> pageTable, oob |-> vpn \notin DOMAIN pageTable,
          assertOk |-> TRUE]
    ELSE IF entry.physicalPage < 0 \/ entry.physicalPage >= NumPhysPages
    THEN [exc |-> "BusErrorException", phys |-> physBefore,
          pageTable |-> pageTable, oob |-> vpn \notin DOMAIN pageTable,
          assertOk |-> TRUE]
    ELSE [exc |-> "NoException",
          phys |-> entry.physicalPage * PageSize + offset,
          pageTable |-> IF vpn \in DOMAIN pageTable
                        THEN [pageTable EXCEPT
                                 ![vpn].use = ~pageTable[vpn].use]
                        ELSE pageTable,
          oob |-> vpn \notin DOMAIN pageTable,
          assertOk |-> TRUE]

\* Steps of Translate after the alignment and bounds checks, for the entry
\* read at vpn.
TranslateEntry(pageTable, vpn, offset, physBefore, entry) ==
    IF ~entry.valid
    THEN [exc |-> "PageFaultException", phys |-> physBefore,
          pageTable |-> pageTable, oob |-> vpn \notin DOMAIN pageTable,
          assertOk |-> TRUE]
    ELSE IF entry.physicalPage < 0 \/ entry.physicalPage >= NumPhysPages
    THEN [exc |-> "BusErrorException", phys |-> physBefore,
          pageTable |-> pageTable, oob |-> vpn \notin DOMAIN pageTable,
          assertOk |-> TRUE]
    ELSE [exc |-> "NoException",
          phys |-> entry.physicalPage * PageSize + offset,
          pageTable |-> IF vpn \in DOMAIN pageTable
                        THEN [pageTable EXCEPT ![vpn].use = TRUE]
                        ELSE pageTable,
          oob |-> vpn \notin DOMAIN pageTable,
          assertOk |-> (entry.physicalPage * PageSize + offset >= 0)
                       /\ (entry.physicalPage * PageSize + offset + 4
                              <= MemorySize)]

\* Translate with the bounds check "vpn > pgSize".
Translate_OffByOne(pageTable, virtAddr, physBefore, pgSize) ==
    IF virtAddr % 4 # 0
    THEN {[exc |-> "AddressErrorException", phys |-> physBefore,
           pageTable |-> pageTable, oob |-> FALSE, assertOk |-> TRUE]}
    ELSE IF UDiv(virtAddr, PageSize) > pgSize
    THEN {[exc |-> "AddressErrorException", phys |-> physBefore,
           pageTable |-> pageTable, oob |-> FALSE, assertOk |-> TRUE]}
    ELSE {TranslateEntry(pageTable, UDiv(virtAddr, PageSize),
                         UMod(virtAddr, PageSize), physBefore, e) :
              e \in EntriesRead(pageTable, UDiv(virtAddr, PageSize))}

\* The outcomes of Translate(virtAddr, &physAddr, pgTable, pgSize) invoked on
\* an address space whose page table is pageTable; physBefore is the value
\* of *physAddr before the call.  More than one outcome only where the code
\* reads beyond the end of pageTable.
Translate(pageTable, virtAddr, physBefore, pgSize) ==
    IF virtAddr % 4 # 0
    THEN {[exc |-> "AddressErrorException", phys |-> physBefore,
           pageTable |-> pageTable, oob |-> FALSE, assertOk |-> TRUE]}
    ELSE IF UDiv(virtAddr, PageSize) >= pgSize
    THEN {[exc |-> "AddressErrorException", phys |-> physBefore,
           pageTable |-> pageTable, oob |-> FALSE, assertOk |-> TRUE]}
    ELSE {TranslateEntry(pageTable, UDiv(virtAddr, PageSize),
                         UMod(virtAddr, PageSize), physBefore, e) :
              e \in EntriesRead(pageTable, UDiv(virtAddr, PageSize))}

\* -------------------------------------------------------- executable images
\* A NOFF segment descriptor and header (noff.h), fields as 32-bit words.
Segment(size, virtualAddr, inFileAddr) ==
    [size |-> size, virtualAddr |-> virtualAddr, inFileAddr |-> inFileAddr]

NoffHeader(magic, code, initData, uninitData) ==
    [noffMagic |-> magic, code |-> code, initData |-> initData,
     uninitData |-> uninitData]

SwapSegment(seg) ==
    [size |-> WordToHost(seg.size),
     virtualAddr |-> WordToHost(seg.virtualAddr),
     inFileAddr |-> WordToHost(seg.inFileAddr)]

SwapHeader(noffH) ==
    [noffMagic |-> WordToHost(noffH.noffMagic),
     code |-> SwapSegment(noffH.code),
     initData |-> SwapSegment(noffH.initData),
     uninitData |-> SwapSegment(noffH.uninitData)]

\* sizeof(NoffHeader): the segments of a file start behind the header.
HeaderSize == 40

\* The executable files offered to the constructor: the header as ReadAt
\* delivers it at offset 0, and the length of the file in bytes.
Executables ==
    << \* 1: code of one page at virtual address 0
       [header |-> NoffHeader(NOFFMAGIC, Segment(PageSize, 0, HeaderSize),
                              Segment(0, 0, 0), Segment(0, 0, 0)),
        length |-> HeaderSize + PageSize],
       \* 2: code, initialized and uninitialized data, the code crossing a
       \*    page boundary, written on a machine of the other byte order
       [header |-> SwapHeader(NoffHeader(NOFFMAGIC,
                       Segment(PageSize + 4, 0, HeaderSize),
                       Segment(8, PageSize + 4, HeaderSize + PageSize + 4),
                       Segment(2, PageSize + 12, 0))),
        length |-> HeaderSize + PageSize + 12],
       \* 3: not a NOFF file
       [header |-> NoffHeader(12345, Segment(PageSize, 0, HeaderSize),
                              Segment(0, 0, 0), Segment(0, 0, 0)),
        length |-> HeaderSize + PageSize],
       \* 4: more pages than the machine has frames
       [header |-> NoffHeader(NOFFMAGIC,
                       Segment((NumPhysPages + 1) * PageSize, 0, HeaderSize),
                       Segment(0, 0, 0), Segment(0, 0, 0)),
        length |-> HeaderSize + (NumPhysPages + 1) * PageSize],
       \* 5: no code, uninitialized data of 2^32 - UserStackSize bytes
       [header |-> NoffHeader(NOFFMAGIC, Segment(0, 0, 0),
                       Segment(0, 0, 0),
                       Segment(-UserStackSize, 0, 0)),
        length |-> HeaderSize],
       \* 6: code at a misaligned virtual address
       [header |-> NoffHeader(NOFFMAGIC, Segment(PageSize, 2, HeaderSize),
                              Segment(0, 0, 0), Segment(0, 0, 0)),
        length |-> HeaderSize + PageSize],
       \* 7: code that starts in the last page and runs past its end
       [header |-> NoffHeader(NOFFMAGIC,
                       Segment(PageSize, UserStackSize + 4, HeaderSize),
                       Segment(0, 0, 0), Segment(0, 0, 0)),
        length |-> HeaderSize + PageSize] >>

\* The byte at offset off of every executable file (never 0, so that a byte
\* copied from a file differs from a zero-filled one).
FileByte(off) == 1 + (off % 7)

\* Values an uninitialized int on the stack may hold.
GarbageAddrs == {0, MemorySize}

\* executable->ReadAt(&mainMemory[into], numBytes, position): copies the
\* bytes of the file from position on, numBytes of them or as many as the
\* file has.  A byte addressed outside mainMemory is not a byte of mainMemory.
ReadCount(exe, numBytes, position) ==
    IF position < 0 \/ position >= exe.length \/ numBytes <= 0 THEN 0
    ELSE IF numBytes > exe.length - position THEN exe.length - position
    ELSE numBytes

ReadAt(mem, exe, into, numBytes, position) ==
    [a \in DOMAIN mem |->
        IF into <= a /\ a < into + ReadCount(exe, numBytes, position)
        THEN FileByte(position + (a - into))
        ELSE mem[a]]

\* bzero(machine->mainMemory, size)
bzero(mem, size) == [a \in DOMAIN mem |-> IF a < size THEN 0 ELSE mem[a]]

\* ------------------------------------------------------------ initial state
\* The record kept in last; every operation fills in the fields it has.
\* again: the call of Translate repeats the call before it, on the same
\* address space with the same arguments.
NoLast ==
    [op |-> "none", id |-> 0, exe |-> 0, base |-> 0, parent |-> 0,
     parentStart |-> 0, virtAddr |-> 0, table |-> 0, pgSize |-> 0,
     physBefore |-> 0, exc |-> "none", phys |-> 0, excs |-> << >>,
     oob |-> FALSE, overrun |-> FALSE, again |-> FALSE, abort |-> "none"]

\* An address space: numPages and pageTable are its fields; alive is FALSE
\* once the destructor has run; frames remembers the frames its page table
\* was given by the constructor.
NewSpace(numPages, pageTable) ==
    [numPages |-> numPages, pageTable |-> pageTable, alive |-> TRUE,
     frames |-> {pageTable[i].physicalPage : i \in DOMAIN pageTable}]

\* Kernel start: totalPagesCount = 0, the machine's memory and registers
\* zeroed by its constructor, no page table installed, no address space.
Init ==
    /\ totalPagesCount = 0
    /\ mainMemory = [a \in 0..(MemorySize - 1) |-> 0]
    /\ spaces = << >>
    /\ machinePageTable = 0
    /\ machinePageTableSize = 0
    /\ registers = [r \in 0..(NumTotalRegs - 1) |-> 0]
    /\ aborted = FALSE
    /\ calls = MaxCalls
    /\ beyond = {}
    /\ building = << >>
    /\ last = NoLast

\* ----------------------------------------------------- construct from image
\* The header as the constructor uses it: swapped when the magic number
\* matches only after WordToHost.
ReadHeader(exe) ==
    IF exe.header.noffMagic # NOFFMAGIC
       /\ WordToHost(exe.header.noffMagic) = NOFFMAGIC
    THEN SwapHeader(exe.header)
    ELSE exe.header

\* size = code.size + initData.size + uninitData.size + UserStackSize
ImageSize(noffH) ==
    Add32(Add32(Add32(noffH.code.size, noffH.initData.size),
                noffH.uninitData.size), UserStackSize)

\* The page table both constructors build while the counter is base.
BuildPageTable(numPages, base) ==
    [i \in 0..(numPages - 1) |-> NewEntry(i, base)]

\* Reserve counting address spaces instead of pages.
Reserve_One(count, numPages) == count + 1

\* totalPagesCount += numPages
Reserve(count, numPages) == count + numPages

\* CounterOk with the assertion left out.
CounterOk_Always(count) == TRUE

\* ASSERT(totalPagesCount <= NumPhysPages)
CounterOk(count) == count <= NumPhysPages

\* A copy of count bytes to mainMemory[into] that leaves mainMemory.
Overrun(into, count) == count > 0 /\ (into < 0 \/ into + count > MemorySize)

\* One "if (seg.size > 0) { Translate(...); ReadAt(...); }" of the
\* constructor, from the state st of its local variables and of memory.
CopySegment(st, seg, exe, numPages) ==
    IF ~st.assertOk \/ ~(seg.size > 0) THEN {st}
    ELSE {IF ~t.assertOk
          THEN [st EXCEPT !.assertOk = FALSE, !.excs = Append(@, t.exc)]
          ELSE [mem |-> ReadAt(st.mem, exe, t.phys, seg.size, seg.inFileAddr),
                pageTable |-> t.pageTable,
                phys |-> t.phys,
                excs |-> Append(st.excs, t.exc),
                oob |-> st.oob \/ t.oob,
                overrun |-> st.overrun
                    \/ Overrun(t.phys,
                               ReadCount(exe, seg.size, seg.inFileAddr)),
                assertOk |-> TRUE] :
            t \in Translate(st.pageTable, seg.virtualAddr, st.phys, numPages)}

\* The zero-fill and the two segment copies, from the memory mem and the
\* freshly built page table; count is the counter after the reservation.
LoadImage(exe, noffH, numPages, pageTable, count, mem) ==
    UNION {CopySegment(s1, noffH.initData, exe, numPages) :
        s1 \in UNION {CopySegment(
                         [mem |-> bzero(mem, count * PageSize),
                          pageTable |-> pageTable, phys |-> g,
                          excs |-> << >>, oob |-> FALSE, overrun |-> FALSE,
                          assertOk |-> TRUE],
                         noffH.code, exe, numPages) : g \in GarbageAddrs}}

\* Abort clearing the machine's memory on the way out.
Abort_Wipe(l) ==
    /\ aborted' = TRUE
    /\ last' = l
    /\ mainMemory' = [a \in DOMAIN mainMemory |-> 0]
    /\ UNCHANGED <<spaces, machinePageTable,
                   machinePageTableSize, registers, calls, beyond,
                   building>>

\* The kernel terminates on a failed ASSERT.
Abort(l) ==
    /\ aborted' = TRUE
    /\ last' = l
    /\ UNCHANGED <<mainMemory, spaces, machinePageTable,
                   machinePageTableSize, registers, calls, beyond,
                   building>>

\* AddrSpace::AddrSpace(OpenFile *executable)
ConstructFromImage(e) ==
    /\ ~aborted
    /\ Len(spaces) < MaxSpaces
    /\ LET exe == Executables[e]
           noffH == ReadHeader(exe)
           numPages == divRoundUp(ImageSize(noffH), PageSize)
           l == [NoLast EXCEPT !.op = "image", !.exe = e,
                               !.id = Len(spaces) + 1,
                               !.base = totalPagesCount]
       IN IF noffH.noffMagic # NOFFMAGIC
          THEN Abort([l EXCEPT !.abort = "magic"])
               /\ UNCHANGED totalPagesCount
          ELSE IF ~(numPages <= NumPhysPages)
          THEN Abort([l EXCEPT !.abort = "numPages"])
               /\ UNCHANGED totalPagesCount
          ELSE IF ~CounterOk(Reserve(totalPagesCount, numPages))
          THEN Abort([l EXCEPT !.abort = "totalPagesCount"])
               /\ totalPagesCount' = Reserve(totalPagesCount, numPages)
          ELSE \E st \in LoadImage(exe, noffH, numPages,
                            BuildPageTable(numPages, totalPagesCount),
                            Reserve(totalPagesCount, numPages), mainMemory) :
                  /\ totalPagesCount' = Reserve(totalPagesCount, numPages)
                  /\ mainMemory' = st.mem
                  /\ aborted' = ~st.assertOk
                  /\ spaces' = IF st.assertOk
                               THEN Append(spaces,
                                           NewSpace(numPages, st.pageTable))
                               ELSE spaces
                  /\ last' = [l EXCEPT !.excs = st.excs, !.oob = st.oob,
                                       !.overrun = st.overrun,
                                       !.abort = IF st.assertOk THEN "none"
                                                 ELSE "physAddr"]
                  /\ UNCHANGED <<machinePageTable, machinePageTableSize,
                                 registers, calls, beyond,
                   building>>

\* ---------------------------------------------------- construct from parent
\* unsigned int parentPhysEnd = parentStartPhysPage + numPages * PageSize;
ParentPhysEnd(parentStartPhysPage, numPages) ==
    parentStartPhysPage + numPages * PageSize

\* for (i = parentStartPhysPage * PageSize; i < parentPhysEnd; ++i, ++k)
\*     mainMemory[k] = mainMemory[i];
\* The bytes written lie at k and above and the bytes read below k (the
\* parent was constructed before the counter reached k / PageSize), so no
\* byte is read after it was written.
CopyParent(mem, parentStartPhysPage, numPages, k) ==
    [a \in DOMAIN mem |->
        IF k <= a
           /\ a - k < ParentPhysEnd(parentStartPhysPage, numPages)
                        - parentStartPhysPage * PageSize
        THEN mem[parentStartPhysPage * PageSize + (a - k)]
        ELSE mem[a]]

\* unsigned int AddrSpace::getStartPhysPage()
getStartPhysPage(space) == space.pageTable[0].physicalPage

\* AddrSpace::AddrSpace(unsigned int numParentPages,
\*                      unsigned int parentStartPhysPage),
\* called with getNumPages() and getStartPhysPage() of the parent p.
ConstructFromParent(p) ==
    /\ ~aborted
    /\ Len(spaces) < MaxSpaces
    /\ p \in DOMAIN spaces
    /\ spaces[p].alive
    /\ spaces[p].numPages > 0
    /\ LET numPages == spaces[p].numPages
           parentStartPhysPage == getStartPhysPage(spaces[p])
           k == totalPagesCount * PageSize
           l == [NoLast EXCEPT !.op = "fork", !.id = Len(spaces) + 1,
                               !.parent = p,
                               !.parentStart = parentStartPhysPage,
                               !.base = totalPagesCount]
       IN IF ~(numPages <= NumPhysPages)
          THEN Abort([l EXCEPT !.abort = "numPages"])
               /\ UNCHANGED totalPagesCount
          ELSE IF ~CounterOk(Reserve(totalPagesCount, numPages))
          THEN Abort([l EXCEPT !.abort = "totalPagesCount"])
               /\ totalPagesCount' = Reserve(totalPagesCount, numPages)
          ELSE /\ totalPagesCount' = Reserve(totalPagesCount, numPages)
               /\ mainMemory' = CopyParent(mainMemory, parentStartPhysPage,
                                           numPages, k)
               /\ spaces' = Append(spaces,
                      NewSpace(numPages,
                               BuildPageTable(numPages, totalPagesCount)))
               /\ last' = l
               /\ UNCHANGED <<machinePageTable, machinePageTableSize,
                              registers, aborted, calls, beyond,
                   building>>

\* ----------------------------------------------------------- other methods
\* Destructor giving the frames back to the counter.
Destructor_Release(count, space) ==
    [count |-> count - space.numPages,
     space |-> [space EXCEPT !.alive = FALSE, !.pageTable = << >>]]

\* AddrSpace::~AddrSpace(): "delete pageTable" and nothing else; the
\* counter and the address space after it.
Destructor(count, space) ==
    [count |-> count,
     space |-> [space EXCEPT !.alive = FALSE, !.pageTable = << >>]]

Destroy(a) ==
    /\ ~aborted
    /\ a \in DOMAIN spaces
    /\ spaces[a].alive
    /\ calls > 0
    /\ spaces' = [spaces EXCEPT
                     ![a] = Destructor(totalPagesCount, spaces[a]).space]
    /\ totalPagesCount' = Destructor(totalPagesCount, spaces[a]).count
    /\ calls' = calls - 1
    /\ last' = [NoLast EXCEPT !.op = "destroy", !.id = a]
    /\ UNCHANGED <<mainMemory, machinePageTable,
                   machinePageTableSize, registers, aborted, beyond,
                   building>>

\* AddrSpace::InitRegisters()
InitialRegisters(numPages) ==
    [r \in 0..(NumTotalRegs - 1) |->
        IF r = StackReg THEN numPages * PageSize - 16
        ELSE IF r = NextPCReg THEN 4
        ELSE 0]

InitRegisters(a) ==
    /\ ~aborted
    /\ calls > 0
    /\ a \in DOMAIN spaces
    /\ spaces[a].alive
    /\ registers' = InitialRegisters(spaces[a].numPages)
    /\ calls' = calls - 1
    /\ last' = [NoLast EXCEPT !.op = "initregs", !.id = a]
    /\ UNCHANGED <<totalPagesCount, mainMemory, spaces, machinePageTable,
                   machinePageTableSize, aborted, beyond,
                   building>>

\* AddrSpace::SaveState()
SaveState(a) ==
    /\ ~aborted
    /\ calls > 0
    /\ a \in DOMAIN spaces
    /\ spaces[a].alive
    /\ calls' = calls - 1
    /\ last' = [NoLast EXCEPT !.op = "save", !.id = a]
    /\ UNCHANGED <<totalPagesCount, mainMemory, spaces, machinePageTable,
                   machinePageTableSize, registers, aborted, beyond,
                   building>>

\* RestoreState leaving the machine's page-table size as it was.
RestoreState_TableOnly(a) ==
    /\ ~aborted
    /\ calls > 0
    /\ a \in DOMAIN spaces
    /\ spaces[a].alive
    /\ machinePageTable' = a
    /\ calls' = calls - 1
    /\ last' = [NoLast EXCEPT !.op = "restore", !.id = a]
    /\ UNCHANGED <<totalPagesCount, mainMemory, spaces, registers, aborted,
                   beyond, machinePageTableSize, building>>

\* AddrSpace::RestoreState()
RestoreState(a) ==
    /\ ~aborted
    /\ calls > 0
    /\ a \in DOMAIN spaces
    /\ spaces[a].alive
    /\ machinePageTable' = a
    /\ machinePageTableSize' = spaces[a].numPages
    /\ calls' = calls - 1
    /\ last' = [NoLast EXCEPT !.op = "restore", !.id = a]
    /\ UNCHANGED <<totalPagesCount, mainMemory, spaces, registers, aborted,
                   beyond,
                   building>>

\* Virtual addresses passed to Translate: by the running kernel, and when
\* Translate is examined on its own.
KernelAddrs == {0, 2, UserStackSize}

TranslateAddrs == {0, 2, PageSize - 4, PageSize, UserStackSize, -4}

\* Values of *physAddr before a call of Translate.
PhysBefores == {-1}

\* What one read beyond the end of the page table of address space a, at
\* index vpn, delivered: the memory there is not written between two calls,
\* so that a later read of the same place delivers the same.
BeyondRead(a, virtAddr, t) ==
    [id |-> a, vpn |-> UDiv(virtAddr, PageSize), exc |-> t.exc,
     frame |-> IF t.exc = "NoException"
               THEN (t.phys - UMod(virtAddr, PageSize)) \div PageSize
               ELSE 0]

\* Translate(virtAddr, &physAddr, pgTable, pgSize) invoked on address space
\* a with the page table and the page count of address space b.
TranslateCall(a, b, virtAddr) ==
    /\ ~aborted
    /\ calls > 0
    /\ a \in DOMAIN spaces /\ spaces[a].alive
    /\ b \in DOMAIN spaces /\ spaces[b].alive
    /\ \E physBefore \in PhysBefores :
       \E t \in Translate(spaces[a].pageTable, virtAddr, physBefore,
                          spaces[b].numPages) :
          /\ t.oob => \A r \in beyond :
                         (r.id = a /\ r.vpn = UDiv(virtAddr, PageSize))
                             => r = BeyondRead(a, virtAddr, t)
          /\ beyond' = IF t.oob
                       THEN beyond \cup {BeyondRead(a, virtAddr, t)}
                       ELSE beyond
          /\ spaces' = [spaces EXCEPT ![a].pageTable = t.pageTable]
          /\ aborted' = ~t.assertOk
          /\ last' = [NoLast EXCEPT !.op = "translate", !.id = a,
                         !.table = b, !.pgSize = spaces[b].numPages,
                         !.virtAddr = virtAddr, !.physBefore = physBefore,
                         !.exc = t.exc, !.phys = t.phys, !.oob = t.oob,
                         !.again = /\ last.op = "translate"
                                   /\ last.id = a
                                   /\ last.table = b
                                   /\ last.virtAddr = virtAddr
                                   /\ last.physBefore = physBefore,
                         !.abort = IF t.assertOk THEN "none" ELSE "physAddr"]
    /\ calls' = calls - 1
    /\ UNCHANGED <<totalPagesCount, mainMemory, machinePageTable,
                   machinePageTableSize, registers, building>>

\* ------------------------------------------------------------ specification
Next ==
    \/ \E e \in DOMAIN Executables : ConstructFromImage(e)
    \/ \E p \in 1..MaxSpaces : ConstructFromParent(p)
    \/ \E a \in 1..MaxSpaces : Destroy(a)
    \/ \E a \in 1..MaxSpaces : InitRegisters(a)
    \/ \E a \in 1..MaxSpaces : SaveState(a)
    \/ \E a \in 1..MaxSpaces : RestoreState(a)
    \/ \E a \in 1..MaxSpaces, v \in KernelAddrs : TranslateCall(a, a, v)

Spec == Init /\ [][Next]_vars

\* ------------------------------------------------------- Translate, alone
\* Translate as a function of its arguments.  It is invoked on address space
\* 1, whose page table is any table of up to MaxEntries entries, whatever the
\* constructors build, and is passed that table or the table of address
\* space 2, whose entries are all alike.
AnyEntries ==
    {[virtualPage |-> 0, physicalPage |-> f, valid |-> v,
      use |-> FALSE, dirty |-> FALSE, readOnly |-> FALSE] :
        f \in {NumPhysPages - 1, NumPhysPages}, v \in BOOLEAN}

AnyTables == UNION {[0..(n - 1) -> AnyEntries] : n \in 1..MaxEntries}

UniformTables ==
    {[i \in 0..(n - 1) |-> e] : n \in 1..MaxEntries, e \in AnyEntries}

InitTranslate ==
    /\ totalPagesCount = 0
    /\ mainMemory = [a \in 0..(MemorySize - 1) |-> 0]
    /\ \E t1 \in AnyTables, t2 \in UniformTables :
          spaces = <<NewSpace(Cardinality(DOMAIN t1), t1),
                     NewSpace(Cardinality(DOMAIN t2), t2)>>
    /\ machinePageTable = 0
    /\ machinePageTableSize = 0
    /\ registers = [r \in 0..(NumTotalRegs - 1) |-> 0]
    /\ aborted = FALSE
    /\ calls = MaxTranslates
    /\ beyond = {}
    /\ building = << >>
    /\ last = NoLast

NextTranslate ==
    \E b \in 1..2, v \in TranslateAddrs : TranslateCall(1, b, v)

SpecTranslate == InitTranslate /\ [][NextTranslate]_vars

\* ----------------------------------------------------------- context switches
\* Register contents a user program leaves behind.
UserValues == {-1, 12}

\* Machine::Run: the user program of address space a runs and writes the
\* registers.
RunUser(a, v) ==
    /\ ~aborted
    /\ calls > 0
    /\ a \in DOMAIN spaces
    /\ spaces[a].alive
    /\ machinePageTable = a
    /\ registers' = [r \in 0..(NumTotalRegs - 1) |-> v]
    /\ calls' = calls - 1
    /\ last' = [NoLast EXCEPT !.op = "run", !.id = a]
    /\ UNCHANGED <<totalPagesCount, mainMemory, spaces, machinePageTable,
                   machinePageTableSize, aborted, beyond,
                   building>>

\* The images loaded where the scheduler's calls are examined.
ContextExecutables == {1, 2, 5}

\* Kernel start with a budget of MaxSwitches + 1 method calls.
InitContext ==
    /\ totalPagesCount = 0
    /\ mainMemory = [a \in 0..(MemorySize - 1) |-> 0]
    /\ spaces = << >>
    /\ machinePageTable = 0
    /\ machinePageTableSize = 0
    /\ registers = [r \in 0..(NumTotalRegs - 1) |-> 0]
    /\ aborted = FALSE
    /\ calls = MaxSwitches + 1
    /\ beyond = {}
    /\ building = << >>
    /\ last = NoLast

NextContext ==
    \/ \E e \in ContextExecutables : ConstructFromImage(e)
    \/ \E p \in 1..MaxSpaces : ConstructFromParent(p)
    \/ \E a \in 1..MaxSpaces : InitRegisters(a)
    \/ \E a \in 1..MaxSpaces : SaveState(a)
    \/ \E a \in 1..MaxSpaces : RestoreState(a)
    \/ \E a \in 1..MaxSpaces : TranslateCall(a, a, 0)
    \/ \E a \in 1..MaxSpaces, v \in UserValues : RunUser(a, v)

SpecContext == InitContext /\ [][NextContext]_vars

\* ------------------------------------------------- interleaved constructors
\* The constructors as the steps of kernel threads that may be switched
\* between any two reads or writes of totalPagesCount: no lock is taken
\* around the loop that fills the page table and the increment behind it.
\* Every thread constructs one address space.
Threads == 1..MaxThreads

\* The images loaded by the threads.
ThreadExecutables == {1}

\* A thread that has not started; pc is its position in the constructor,
\* i the loop variable, loaded the counter as "+=" read it, k the local of
\* the fork constructor, overlap the threads whose constructions were in
\* progress while this one was, raced whether the counter was written
\* after this thread entered the loop and before it wrote the counter
\* itself, space the address space it returned.
Idle ==
    [pc |-> "idle", kind |-> "none", exe |-> 0, parentStart |-> 0, k |-> 0,
     numPages |-> 0, i |-> 0, pageTable |-> << >>, loaded |-> 0,
     overlap |-> {}, raced |-> FALSE, space |-> 0]

\* The threads inside a constructor.
InProgress == {t \in Threads : building[t].pc \notin {"idle", "done"}}

\* Thread t enters a constructor: the other threads in progress and t are
\* noted as overlapping.
Enter(t, rec) ==
    [u \in Threads |->
        IF u = t THEN [rec EXCEPT !.overlap = InProgress \ {t}]
        ELSE IF u \in InProgress
        THEN [building[u] EXCEPT !.overlap = @ \cup {t}]
        ELSE building[u]]

\* Lines 73-91: the header is read and checked, numPages computed, the page
\* table allocated.
BeginImage(t, e) ==
    /\ ~aborted
    /\ building[t].pc = "idle"
    /\ LET noffH == ReadHeader(Executables[e])
           numPages == divRoundUp(ImageSize(noffH), PageSize)
       IN IF noffH.noffMagic # NOFFMAGIC \/ ~(numPages <= NumPhysPages)
          THEN /\ aborted' = TRUE
               /\ UNCHANGED building
          ELSE /\ building' = Enter(t, [Idle EXCEPT !.pc = "fill",
                                           !.kind = "image", !.exe = e,
                                           !.numPages = numPages])
               /\ UNCHANGED aborted
    /\ last' = [NoLast EXCEPT !.op = "step", !.id = t]
    /\ UNCHANGED <<totalPagesCount, mainMemory, spaces, machinePageTable,
                   machinePageTableSize, registers, calls, beyond>>

\* Lines 157-167: numPages is taken from the parent, k from the counter.
BeginFork(t, p) ==
    /\ ~aborted
    /\ building[t].pc = "idle"
    /\ p \in DOMAIN spaces
    /\ spaces[p].alive
    /\ spaces[p].numPages > 0
    /\ IF ~(spaces[p].numPages <= NumPhysPages)
       THEN /\ aborted' = TRUE
            /\ UNCHANGED building
       ELSE /\ building' = Enter(t, [Idle EXCEPT !.pc = "fill",
                                 !.kind = "fork",
                                 !.parentStart = getStartPhysPage(spaces[p]),
                                 !.k = totalPagesCount * PageSize,
                                 !.numPages = spaces[p].numPages])
            /\ UNCHANGED aborted
    /\ last' = [NoLast EXCEPT !.op = "step", !.id = t]
    /\ UNCHANGED <<totalPagesCount, mainMemory, spaces, machinePageTable,
                   machinePageTableSize, registers, calls, beyond>>

\* One turn of the loop of lines 93-103 and 169-179: entry i is filled in
\* with physicalPage = i + totalPagesCount, the counter read at this turn.
FillEntry(t) ==
    /\ ~aborted
    /\ building[t].pc = "fill"
    /\ building[t].i < building[t].numPages
    /\ building' = [building EXCEPT
          ![t].pageTable =
              [j \in 0..building[t].i |->
                  IF j = building[t].i
                  THEN NewEntry(j, totalPagesCount)
                  ELSE building[t].pageTable[j]],
          ![t].i = @ + 1]
    /\ last' = [NoLast EXCEPT !.op = "step", !.id = t]
    /\ UNCHANGED <<totalPagesCount, mainMemory, spaces, machinePageTable,
                   machinePageTableSize, registers, aborted, calls, beyond>>

\* The loop is left and "totalPagesCount += numPages" reads the counter.
LoadCounter(t) ==
    /\ ~aborted
    /\ building[t].pc = "fill"
    /\ building[t].i = building[t].numPages
    /\ building' = [building EXCEPT ![t].pc = "store",
                                    ![t].loaded = totalPagesCount]
    /\ last' = [NoLast EXCEPT !.op = "step", !.id = t]
    /\ UNCHANGED <<totalPagesCount, mainMemory, spaces, machinePageTable,
                   machinePageTableSize, registers, aborted, calls, beyond>>

\* StoreCounter writing the counter back as it was read.
StoreCounter_Lost(t) ==
    /\ ~aborted
    /\ building[t].pc = "store"
    /\ totalPagesCount' = building[t].loaded
    /\ building' = [u \in Threads |->
          IF u = t THEN [building[u] EXCEPT !.pc = "finish"]
          ELSE IF building[u].pc \in {"fill", "store"}
          THEN [building[u] EXCEPT !.raced = TRUE]
          ELSE building[u]]
    /\ last' = [NoLast EXCEPT !.op = "step", !.id = t]
    /\ UNCHANGED <<mainMemory, spaces, machinePageTable,
                   machinePageTableSize, registers, aborted, calls, beyond>>

\* "totalPagesCount += numPages" writes the counter (lines 106 and 182).
StoreCounter(t) ==
    /\ ~aborted
    /\ building[t].pc = "store"
    /\ totalPagesCount' = Reserve(building[t].loaded, building[t].numPages)
    /\ building' = [u \in Threads |->
          IF u = t THEN [building[u] EXCEPT !.pc = "finish"]
          ELSE IF building[u].pc \in {"fill", "store"}
          THEN [building[u] EXCEPT !.raced = TRUE]
          ELSE building[u]]
    /\ last' = [NoLast EXCEPT !.op = "step", !.id = t]
    /\ UNCHANGED <<mainMemory, spaces, machinePageTable,
                   machinePageTableSize, registers, aborted, calls, beyond>>

\* The rest of the constructor: the ASSERT on the counter, the zero-fill
\* and the segment copies (lines 107-143) or the copy of the parent (lines
\* 185-196); the constructor returns the address space.
Finish(t) ==
    /\ ~aborted
    /\ building[t].pc = "finish"
    /\ last' = [NoLast EXCEPT !.op = "step", !.id = t]
    /\ IF ~CounterOk(totalPagesCount)
       THEN /\ aborted' = TRUE
            /\ UNCHANGED <<mainMemory, spaces, building>>
       ELSE IF building[t].kind = "image"
       THEN \E st \in LoadImage(Executables[building[t].exe],
                               ReadHeader(Executables[building[t].exe]),
                               building[t].numPages, building[t].pageTable,
                               totalPagesCount, mainMemory) :
               /\ mainMemory' = st.mem
               /\ aborted' = ~st.assertOk
               /\ spaces' = IF st.assertOk
                            THEN Append(spaces,
                                        NewSpace(building[t].numPages,
                                                 st.pageTable))
                            ELSE spaces
               /\ building' = [building EXCEPT ![t].pc = "done",
                                               ![t].space = Len(spaces) + 1]
       ELSE /\ mainMemory' = CopyParent(mainMemory, building[t].parentStart,
                                        building[t].numPages, building[t].k)
            /\ spaces' = Append(spaces, NewSpace(building[t].numPages,
                                                 building[t].pageTable))
            /\ building' = [building EXCEPT ![t].pc = "done",
                                            ![t].space = Len(spaces) + 1]
            /\ UNCHANGED aborted
    /\ UNCHANGED <<totalPagesCount, machinePageTable,
                   machinePageTableSize, registers, calls, beyond>>

\* The kernel after the first user program has been loaded from image 1
\* by the only thread there was; the threads that construct the next
\* address spaces have not started.
InitConcurrent ==
    /\ \E st \in LoadImage(Executables[1], ReadHeader(Executables[1]),
               divRoundUp(ImageSize(ReadHeader(Executables[1])), PageSize),
               BuildPageTable(
                   divRoundUp(ImageSize(ReadHeader(Executables[1])),
                              PageSize), 0),
               divRoundUp(ImageSize(ReadHeader(Executables[1])), PageSize),
               [a \in 0..(MemorySize - 1) |-> 0]) :
          /\ mainMemory = st.mem
          /\ spaces = <<NewSpace(Cardinality(DOMAIN st.pageTable),
                                 st.pageTable)>>
    /\ totalPagesCount = spaces[1].numPages
    /\ machinePageTable = 0
    /\ machinePageTableSize = 0
    /\ registers = [r \in 0..(NumTotalRegs - 1) |-> 0]
    /\ aborted = FALSE
    /\ calls = 0
    /\ beyond = {}
    /\ building = [t \in Threads |-> Idle]
    /\ last = NoLast

NextConcurrent ==
    \/ \E t \in Threads, e \in ThreadExecutables : BeginImage(t, e)
    \/ \E t \in Threads, p \in 1..MaxSpaces : BeginFork(t, p)
    \/ \E t \in Threads : FillEntry(t)
    \/ \E t \in Threads : LoadCounter(t)
    \/ \E t \in Threads : StoreCounter(t)
    \/ \E t \in Threads : Finish(t)

SpecConcurrent == InitConcurrent /\ [][NextConcurrent]_vars

\* ================================================================== claims
\* The address space the last operation constructed or was invoked on.
LastSpace == spaces[last.id]

\* The last operation was a construction that ran to completion.
Constructed == last.op \in {"image", "fork"} /\ last.abort = "none"

\* C1: immediately after a fork returns, every byte of every page of the
\* child equals the byte at the same offset of the parent's frame
\* parentStartPhysPage + i, whatever the parent's base frame.
C1_ForkCopiesParent ==
    (last.op = "fork" /\ last.abort = "none") =>
        \A i \in 0..(LastSpace.numPages - 1), o \in 0..(PageSize - 1) :
            mainMemory[LastSpace.pageTable[i].physicalPage * PageSize + o]
                = mainMemory[(last.parentStart + i) * PageSize + o]

\* C2: a construction from an image leaves every byte of the frames
\* committed before it (those below the counter it started from) as it was.
C2_EarlierFramesKept ==
    [][(last'.op = "image" /\ last'.abort = "none") =>
          \A a \in 0..(totalPagesCount * PageSize - 1) :
              mainMemory'[a] = mainMemory[a]]_vars

\* C3: every page-table entry of every address space is valid, lies in
\* [0, NumPhysPages) and maps to a frame that no other entry holds, in the
\* same table or in another one; no two address spaces ever constructed were
\* given a common frame, and a child's entry i differs from its parent's.
C3_FramesDistinct ==
    /\ \A a \in DOMAIN spaces : \A i \in DOMAIN spaces[a].pageTable :
          /\ spaces[a].pageTable[i].valid
          /\ spaces[a].pageTable[i].physicalPage \in 0..(NumPhysPages - 1)
          /\ \A b \in DOMAIN spaces : \A j \in DOMAIN spaces[b].pageTable :
                (a # b \/ i # j) =>
                    spaces[a].pageTable[i].physicalPage
                        # spaces[b].pageTable[j].physicalPage
    /\ \A a \in DOMAIN spaces, b \in DOMAIN spaces :
          a # b => spaces[a].frames \cap spaces[b].frames = {}
    /\ (last.op = "fork" /\ last.abort = "none" /\ spaces[last.parent].alive)
          => \A i \in DOMAIN LastSpace.pageTable :
                 LastSpace.pageTable[i].physicalPage
                     # spaces[last.parent].pageTable[i].physicalPage

C3_Witness ==
    /\ last.op = "fork" /\ last.abort = "none" /\ last.parent = 2
    /\ \A a \in DOMAIN spaces : spaces[a].alive

\* C4: the counter is at most NumPhysPages unless the kernel has aborted;
\* a counter above NumPhysPages is met only in the aborted state of the
\* construction that raised it, and no address space holds a frame beyond
\* physical memory.
C4_CounterBounded ==
    /\ ~aborted => totalPagesCount <= NumPhysPages
    /\ totalPagesCount > NumPhysPages =>
          last.op \in {"image", "fork"} /\ last.abort = "totalPagesCount"
    /\ \A a \in DOMAIN spaces : spaces[a].frames \subseteq 0..(NumPhysPages - 1)

C4_Witness ==
    aborted /\ last.abort = "totalPagesCount" /\ totalPagesCount > NumPhysPages

\* C5: a construction of n pages started at counter c maps page i to frame
\* c + i and leaves the counter at c + n; every address space is one
\* contiguous run of frames starting at getStartPhysPage().
C5_BumpAllocation ==
    /\ Constructed =>
          /\ \A i \in 0..(LastSpace.numPages - 1) :
                LastSpace.pageTable[i].physicalPage = last.base + i
          /\ totalPagesCount = last.base + LastSpace.numPages
    /\ \A a \in DOMAIN spaces : \A i \in DOMAIN spaces[a].pageTable :
          spaces[a].pageTable[i].physicalPage
              = getStartPhysPage(spaces[a]) + i

C5_Witness ==
    Constructed /\ last.base > 0 /\ LastSpace.numPages > 1 /\ last.id = 3

\* C6: the counter never decreases; only a construction changes it; the
\* frames of a destroyed address space are not given to a later one.
C6_CounterMonotonic ==
    [][/\ totalPagesCount' >= totalPagesCount
       /\ last'.op \notin {"image", "fork"}
             => totalPagesCount' = totalPagesCount
       /\ Len(spaces') > Len(spaces) =>
             \A a \in DOMAIN spaces :
                 ~spaces[a].alive =>
                     spaces'[Len(spaces')].frames \cap spaces[a].frames = {}
      ]_vars

C6_Witness ==
    /\ Constructed
    /\ \E a \in DOMAIN spaces : a < last.id /\ ~spaces[a].alive

\* The page count the sum of the four sizes asks for, each size read as an
\* unsigned number and the sum taken without wrapping.
CeilOfSum(noffH) ==
    UDiv(noffH.code.size, PageSize) + UDiv(noffH.initData.size, PageSize)
    + UDiv(noffH.uninitData.size, PageSize) + UDiv(UserStackSize, PageSize)
    + ((UMod(noffH.code.size, PageSize) + UMod(noffH.initData.size, PageSize)
        + UMod(noffH.uninitData.size, PageSize)
        + UMod(UserStackSize, PageSize)) + PageSize - 1) \div PageSize

\* C7: for every image the constructor accepts, numPages is
\* ceil((code.size + initData.size + uninitData.size + UserStackSize)
\* / PageSize), whatever the counter was.
C7_PageCount ==
    (last.op = "image" /\ last.abort = "none") =>
        LastSpace.numPages = CeilOfSum(ReadHeader(Executables[last.exe]))

\* The last call of Translate: its page number and offset, the page table of
\* the address space it was invoked on and the page table it was passed.
Translated == last.op = "translate"
LastVpn == UDiv(last.virtAddr, PageSize)
LastOffset == UMod(last.virtAddr, PageSize)
OwnTable == spaces[last.id].pageTable
PassedTable == spaces[last.table].pageTable

\* C8: Translate decides by the ordered rules: misaligned -> AddressError;
\* vpn >= table size -> AddressError; entry not valid -> PageFault; frame
\* >= NumPhysPages -> BusError; otherwise NoException with physical address
\* physicalPage * PageSize + offset.  The entry is the one Translate reads
\* at vpn; where that read is beyond the table, one of the three outcomes
\* of an entry.
C8_TranslateRules ==
    Translated =>
        IF last.virtAddr % 4 # 0
        THEN last.exc = "AddressErrorException"
        ELSE IF LastVpn >= last.pgSize
        THEN last.exc = "AddressErrorException"
        ELSE IF LastVpn \notin DOMAIN OwnTable
        THEN last.exc # "AddressErrorException"
        ELSE IF ~OwnTable[LastVpn].valid
        THEN last.exc = "PageFaultException"
        ELSE IF OwnTable[LastVpn].physicalPage >= NumPhysPages
        THEN last.exc = "BusErrorException"
        ELSE /\ last.exc = "NoException"
             /\ last.phys = OwnTable[LastVpn].physicalPage * PageSize
                                + LastOffset

C8_Witness ==
    /\ Translated
    /\ last.virtAddr % 4 # 0
    /\ LastVpn \in DOMAIN OwnTable
    /\ ~OwnTable[LastVpn].valid
    /\ last.exc = "AddressErrorException"

\* C9: the validity check, the frame number of the physical address and the
\* use-bit update of Translate refer to the entry at vpn of the page table
\* passed as argument, whichever address space Translate is invoked on.
C9_UsesPassedTable ==
    (Translated /\ last.virtAddr % 4 = 0 /\ LastVpn < last.pgSize) =>
        /\ last.exc = "PageFaultException" <=> ~PassedTable[LastVpn].valid
        /\ last.exc = "NoException" =>
              /\ last.phys = PassedTable[LastVpn].physicalPage * PageSize
                                 + LastOffset
              /\ PassedTable[LastVpn].use

\* C10 as stated: an invalid entry at the page of the address yields
\* PageFault, whatever the alignment and the bounds.
C10_InvalidAlwaysFaults ==
    (Translated /\ LastVpn \in DOMAIN OwnTable /\ ~OwnTable[LastVpn].valid)
        => last.exc = "PageFaultException"

\* C10 amended: for a word-aligned address whose page is below the table
\* size, an invalid entry at that page yields PageFault.
C10_InvalidFaultsWhenAligned ==
    (Translated /\ last.virtAddr % 4 = 0 /\ LastVpn < last.pgSize
       /\ LastVpn \in DOMAIN OwnTable /\ ~OwnTable[LastVpn].valid)
        => last.exc = "PageFaultException"

C10_Witness ==
    /\ Translated /\ last.virtAddr % 4 = 0 /\ LastVpn < last.pgSize
    /\ LastVpn \in DOMAIN OwnTable /\ ~OwnTable[LastVpn].valid
    /\ OwnTable[LastVpn].physicalPage >= NumPhysPages
    /\ last.exc = "PageFaultException"


\* --------------------------------------------------------------------- C11
\* C11: a call of Translate that repeats the call before it, with nothing
\* done in between, returns the same outcome and the same physical address,
\* and leaves every page table as the first call left it.
C11_TranslateIdempotent ==
    [][(last'.op = "translate" /\ last'.again)
          => /\ last'.exc = last.exc
             /\ last'.phys = last.phys
             /\ spaces' = spaces]_vars

\* A successful call has been repeated.
C11_Witness ==
    /\ Translated
    /\ last.again
    /\ last.exc = "NoException"
    /\ ~last.oob
    /\ spaces[last.id].pageTable[LastVpn].use

\* --------------------------------------------------------------------- C12
\* The header of the image the last construction loaded.
LastHeader == ReadHeader(Executables[last.exe])

\* A construction from an image has just returned.
Loaded == last.op = "image" /\ last.abort = "none"

\* Every byte of segment seg that lies in a page of the new address space
\* is the byte of the file at the same distance from the segment's start.
SegmentPlaced(seg) ==
    \A v \in seg.virtualAddr..(seg.virtualAddr + seg.size - 1) :
        (v \div PageSize) \in DOMAIN LastSpace.pageTable
            => mainMemory[LastSpace.pageTable[v \div PageSize].physicalPage
                             * PageSize + (v % PageSize)]
                 = FileByte(seg.inFileAddr + (v - seg.virtualAddr))

\* C12: after a construction from an image, every byte of the code segment
\* and of the initialized-data segment (when of nonzero size) is found at
\* the physical address its virtual address translates to.
C12_SegmentsPlaced ==
    Loaded => /\ (LastHeader.code.size > 0
                     => SegmentPlaced(LastHeader.code))
              /\ (LastHeader.initData.size > 0
                     => SegmentPlaced(LastHeader.initData))

\* --------------------------------------------------------------------- C13
\* C13: RestoreState on an address space installs its page table and its
\* numPages in the machine, and no other operation changes the machine's
\* page table or page-table size.
C13_ContextKept ==
    [][IF last'.op = "restore"
       THEN /\ machinePageTable' = last'.id
            /\ machinePageTableSize' = spaces'[last'.id].numPages
       ELSE /\ machinePageTable' = machinePageTable
            /\ machinePageTableSize' = machinePageTableSize]_vars

\* The page table of an address space is installed, a second address space
\* exists, and a call that is not RestoreState has been made since.
C13_Witness ==
    /\ machinePageTable \in DOMAIN spaces
    /\ machinePageTableSize = spaces[machinePageTable].numPages
    /\ Len(spaces) >= 2
    /\ last.op \in {"save", "initregs", "translate", "image", "fork"}

\* --------------------------------------------------------------------- C14
\* The files with the magic number in neither byte order.
BadMagicExecutables ==
    {e \in DOMAIN Executables :
        /\ Executables[e].header.noffMagic # NOFFMAGIC
        /\ WordToHost(Executables[e].header.noffMagic) # NOFFMAGIC}

\* The files for which the page count computed exceeds the machine's
\* frames.
TooBigExecutables ==
    {e \in DOMAIN Executables :
        divRoundUp(ImageSize(ReadHeader(Executables[e])), PageSize)
            > NumPhysPages}

\* C14: a construction from an image with the magic number in neither byte
\* order, or with a computed page count above NumPhysPages, terminates the
\* kernel with the frame counter and all of physical memory as they were
\* before the construction started.
C14_RejectedEarly ==
    [][(/\ last'.op = "image"
        /\ last'.exe \in BadMagicExecutables \cup TooBigExecutables)
          => /\ aborted'
             /\ totalPagesCount' = totalPagesCount
             /\ mainMemory' = mainMemory
             /\ spaces' = spaces]_vars

\* An image of either kind was rejected after another had been loaded.
C14_Witness ==
    /\ aborted
    /\ last.op = "image"
    /\ last.exe \in BadMagicExecutables \cup TooBigExecutables
    /\ totalPagesCount > 0
    /\ \E a \in DOMAIN mainMemory : mainMemory[a] # 0

\* --------------------------------------------------------------------- C15
\* C15: after InitRegisters on an address space of numPages pages the
\* program counter is 0, the next program counter 4, the stack register
\* numPages * PageSize - 16, a word-aligned address in one of the pages
\* 0 .. numPages - 1, and every other register 0, whatever the registers
\* held before.
C15_InitialRegisters ==
    last.op = "initregs"
        => /\ registers[PCReg] = 0
           /\ registers[NextPCReg] = 4
           /\ registers[StackReg] = LastSpace.numPages * PageSize - 16
           /\ \A r \in DOMAIN registers :
                 r \notin {PCReg, NextPCReg, StackReg} => registers[r] = 0
           /\ registers[StackReg] % 4 = 0
           /\ registers[StackReg] >= 0
           /\ registers[StackReg] \div PageSize < LastSpace.numPages

\* --------------------------------------------------------------------- C16
\* The page tables after a successful call: the entry Translate read has
\* its use bit set, every other field of every entry is as before.
UseBitSet(id, vpn) ==
    [s \in DOMAIN spaces |->
        [spaces[s] EXCEPT
            !.pageTable = [i \in DOMAIN spaces[s].pageTable |->
                IF s = id /\ i = vpn
                THEN [spaces[s].pageTable[i] EXCEPT !.use = TRUE]
                ELSE spaces[s].pageTable[i]]]]

\* C16: a call of Translate that returns NoException changes nothing but
\* the use bit of the entry it consulted, which becomes TRUE; a call that
\* returns AddressError, PageFault or BusError changes no page-table entry
\* and leaves the physical-address output as it was.
C16_OnlyUseBit ==
    [][(last'.op = "translate" /\ calls' # calls)
          => /\ totalPagesCount' = totalPagesCount
             /\ mainMemory' = mainMemory
             /\ registers' = registers
             /\ machinePageTable' = machinePageTable
             /\ machinePageTableSize' = machinePageTableSize
             /\ IF last'.exc = "NoException"
                THEN spaces' = UseBitSet(last'.id,
                                         UDiv(last'.virtAddr, PageSize))
                ELSE /\ spaces' = spaces
                     /\ last'.phys = last'.physBefore]_vars

\* A successful call on a table of several entries has set one use bit and
\* left another clear.
C16_Witness ==
    /\ Translated
    /\ last.exc = "NoException"
    /\ ~last.oob
    /\ OwnTable[LastVpn].use
    /\ \E i \in DOMAIN OwnTable : ~OwnTable[i].use

\* --------------------------------------------------------------------- C17
\* C17: no call of Translate terminates the kernel: whatever the address
\* and the page table, the call returns one of the four outcomes, and on
\* NoException the physical address satisfies the assertion
\* physAddr >= 0 /\ physAddr + 4 <= MemorySize.
C17_TranslateNeverAborts ==
    Translated
        => /\ ~aborted
           /\ last.abort = "none"
           /\ last.exc \in ExceptionTypes
           /\ last.exc = "NoException"
                 => (last.phys >= 0 /\ last.phys + 4 <= MemorySize)

\* The last word of the last frame of memory has been translated to.
C17_Witness ==
    /\ Translated
    /\ last.exc = "NoException"
    /\ last.phys + 4 = MemorySize

\* --------------------------------------------------------------------- C18
\* The virtual address v lies in segment seg.
InSegment(v, seg) ==
    seg.size > 0 /\ seg.virtualAddr <= v /\ v < seg.virtualAddr + seg.size

\* C18: after a construction from an image, every byte of the frames of
\* the new address space that belongs neither to the code segment nor to
\* the initialized-data segment is 0, whatever memory held before.
C18_RestZeroed ==
    Loaded =>
        \A v \in 0..(LastSpace.numPages * PageSize - 1) :
            (~InSegment(v, LastHeader.code)
               /\ ~InSegment(v, LastHeader.initData))
                => mainMemory[last.base * PageSize + v] = 0

\* --------------------------------------------------------------------- C19
\* Threads s and t have both filled their page tables, and the counter
\* has not been written since either of them entered the loop.
BothFilled(s, t) ==
    /\ s # t
    /\ building[s].pc = "store" /\ ~building[s].raced
    /\ building[t].pc = "store" /\ ~building[t].raced

\* C19: the counter is read while the page table is filled and raised
\* afterwards, with no mutual exclusion: two constructions that have both
\* filled their tables before either raised the counter hold the same
\* frames, page by page; when no construction was in progress while
\* another was, no two address spaces share a frame.
C19_SingleContext ==
    /\ \A s, t \in Threads :
          BothFilled(s, t) =>
              \A i \in DOMAIN building[s].pageTable
                        \cap DOMAIN building[t].pageTable :
                  building[s].pageTable[i].physicalPage
                      = building[t].pageTable[i].physicalPage
    /\ (\A t \in Threads : building[t].overlap = {})
          => \A a, b \in DOMAIN spaces :
                a # b => spaces[a].frames \cap spaces[b].frames = {}

\* Two constructions have interleaved and returned address spaces with the
\* same frames.
C19_Witness ==
    \E s, t \in Threads :
        /\ s # t
        /\ building[s].pc = "done" /\ building[t].pc = "done"
        /\ t \in building[s].overlap
        /\ spaces[building[s].space].frames
              = spaces[building[t].space].frames

\* --------------------------------------------------------------------- C20
\* The physical bytes of the frames reserved by the last construction from
\* an image.
LastFrames ==
    (last.base * PageSize) ..
        ((last.base + divRoundUp(ImageSize(LastHeader), PageSize)) * PageSize
            - 1)

\* C20: a construction from an image that passes the magic and capacity
\* checks copies a segment only after its start translated with
\* NoException, and no byte of a segment lands outside the frames reserved
\* for the new address space: outside them a byte changes only by being
\* zeroed (no byte of a file is 0), and no copy leaves physical memory.
C20_CopyInsideOwnFrames ==
    [][(last'.op = "image" /\ last'.abort \in {"none", "physAddr"})
          => /\ \A k \in DOMAIN last'.excs :
                   last'.excs[k] = "NoException"
             /\ ~last'.overrun
             /\ LET own == LastFrames'
                IN \A a \in DOMAIN mainMemory \ own :
                      mainMemory'[a] \in {mainMemory[a], 0}]_vars

====
